---- MODULE Spec2Model ----
(***************************************************************************)
(* A model of snakemake/workflow.py: wildcard templates, the resolver      *)
(* (Rule._to_visit), the DAG validator (Rule.check_dag), the recursive     *)
(* scheduler (Rule.run / Rule.dryrun) with its job table, the worker pool  *)
(* and the job body (run_wrapper).                                         *)
(*                                                                         *)
(* A path is a sequence of one-character strings.  A template is a         *)
(* sequence of tokens: a one-character literal or a placeholder such as    *)
(* "{x}".  A binding (Python dict) is a set of <<name, value>> pairs.      *)
(***************************************************************************)
EXTENDS Integers, Sequences, FiniteSets, TLC

\* ------------------------------------------------------------------ bounds
\* number of top-level entry-point calls explored in one behaviour
MaxRuns == 2
\* largest modification time storage may hold
MaxTime == 2
\* size of the worker pool (Workflow.setup_pool(jobs))
NumWorkers == 2
\* depth of the Python call stack at which recursion is cut off
\* (stands for sys.getrecursionlimit(): RuntimeError "maximum recursion depth")
MaxDepth == 3

\* ------------------------------------------------------- wildcard templates
WildTokens == {"{x}", "{y}"}

IsWild(tok) == tok \in WildTokens

\* the name inside a placeholder: group 'name' of \{(?P<name>\w+?)\}
WildName(tok) == IF tok = "{x}" THEN "x" ELSE "y"

\* Rule._get_wildcard_names
get_wildcard_names(template) ==
    {WildName(template[i]) : i \in {k \in 1..Len(template) : IsWild(template[k])}}

\* Rule.__to_regex: "." is escaped to a literal dot, every placeholder becomes
\* the named group (?P<name>.+), every other character stands for itself.
to_regex(template) ==
    [i \in 1..Len(template) |->
        IF IsWild(template[i])
        THEN [kind |-> "group", c |-> "", name |-> WildName(template[i])]
        ELSE [kind |-> "lit", c |-> template[i], name |-> ""]]

NoMatch == [ok |-> FALSE, end |-> 0, b |-> {}]

\* re.match(regex, s): the first match found by a backtracking matcher that is
\* anchored at the start of s, with greedy ".+" (longest span tried first).
\* end is the length of match.group(), b is match.groupdict().
RECURSIVE re_from(_, _, _, _)
RECURSIVE re_group(_, _, _, _, _)
re_from(re, s, i, j) ==
    IF i > Len(re) THEN [ok |-> TRUE, end |-> j - 1, b |-> {}]
    ELSE IF re[i].kind = "lit"
         THEN IF j <= Len(s) /\ s[j] = re[i].c
              THEN re_from(re, s, i + 1, j + 1)
              ELSE NoMatch
         ELSE re_group(re, s, i, j, Len(s) - j + 1)

re_group(re, s, i, j, n) ==
    IF n < 1 THEN NoMatch
    ELSE LET r == re_from(re, s, i + 1, j + n)
         IN  IF r.ok
             THEN [ok |-> TRUE, end |-> r.end,
                   b |-> r.b \cup {<<re[i].name, SubSeq(s, j, j + n - 1)>>}]
             ELSE re_group(re, s, i, j, n - 1)

re_match(re, s) == re_from(re, s, 1, 1)

\* "match and len(match.group()) == len(requested_output)"
full_match(re, s) ==
    LET m == re_match(re, s) IN m.ok /\ m.end = Len(s)

\* Rule.get_wildcard_len
RECURSIVE SumLen(_)
SumLen(b) ==
    IF b = {} THEN 0
    ELSE LET p == CHOOSE q \in b : TRUE IN Len(p[2]) + SumLen(b \ {p})

get_wildcard_len(wildcards) == SumLen(wildcards)

\* str.format(**wildcards) on a template; "KeyError" when a name is unbound
BoundNames(wildcards) == {p[1] : p \in wildcards}

Lookup(wildcards, n) == (CHOOSE p \in wildcards : p[1] = n)[2]

RECURSIVE format(_, _)
format(template, wildcards) ==
    IF template = <<>> THEN <<>>
    ELSE LET tok == Head(template)
         IN  IF IsWild(tok)
             THEN Lookup(wildcards, WildName(tok)) \o format(Tail(template), wildcards)
             ELSE <<tok>> \o format(Tail(template), wildcards)

CanFormat(template, wildcards) ==
    get_wildcard_names(template) \subseteq BoundNames(wildcards)

\* ------------------------------------------------------------------- rules
\* A rule (Rule.__init__ and the fields add_input/add_output fill):
\*   name, input templates, output templates; hasrun says whether the global
\*   "__<name>" exists (Rule.has_run); acts is what the opaque action callable
\*   may do when it is invoked (see run_wrapper below).
VARIABLES
    workers,    \* the number of processes of the pool ("Pool(processes = jobs)")
    rules,      \* Workflow.__rules, in registration order
    fs,         \* storage: path -> [kind, mtime]
    clock,      \* the time a write stamps on a file
    jobs,       \* the default argument jobs = dict() of Rule.run
    dryjobs,    \* the default argument jobs = set() of Rule.dryrun
    visited0,   \* the default argument visited = set() of Rule.check_dag
    pool,       \* every job handed to Pool.apply_async, in submission order
    stack,      \* the coordinator's call stack of Rule.run / Rule.dryrun frames
    call,       \* the entry-point call in progress
    since,      \* what happened to the process and storage since the last call ended
    ncalls,     \* number of entry-point calls made so far
    prev,       \* summary of the call before the latest one
    cur         \* record of the latest entry-point call (running or ended)

vars == <<workers, rules, fs, clock, jobs, dryjobs, visited0, pool, stack, call, since, ncalls, prev, cur>>

RuleIds == 1..Len(rules)

\* Rule.regex_output, as add_output stores it
regex_output(r) == [k \in 1..Len(rules[r].output) |-> to_regex(rules[r].output[k])]

\* Rule.wildcard_names: set by the first add_output item
wildcard_names(r) ==
    IF rules[r].output = <<>> THEN {} ELSE get_wildcard_names(rules[r].output[1])

\* Rule.has_wildcards
has_wildcards(r) == wildcard_names(r) # {}

\* Rule.has_run
has_run(r) == rules[r].hasrun

\* Rule.is_producer
is_producer(r, requested_output) ==
    \E k \in 1..Len(rules[r].output) : full_match(regex_output(r)[k], requested_output)

\* Rule.get_wildcards: the loop over regex_output keeping the match with the
\* smallest wildcard length; "not bestmatch" also holds for an empty dict.
None == [none |-> TRUE, b |-> {}]

RECURSIVE gw_loop(_, _, _, _, _)
gw_loop(r, requested_output, k, bestmatch, bestmatchlen) ==
    IF k > Len(rules[r].output) THEN bestmatch
    ELSE LET m == re_match(regex_output(r)[k], requested_output)
         IN  IF m.ok /\ m.end = Len(requested_output)
             THEN LET l == get_wildcard_len(m.b)
                  IN  IF bestmatch.none \/ bestmatch.b = {} \/ bestmatchlen > l
                      THEN gw_loop(r, requested_output, k + 1,
                                   [none |-> FALSE, b |-> m.b], l)
                      ELSE gw_loop(r, requested_output, k + 1, bestmatch, bestmatchlen)
             ELSE gw_loop(r, requested_output, k + 1, bestmatch, bestmatchlen)

\* a matcher that returns no bindings
get_wildcards_empty(r, requested_output) == [none |-> FALSE, b |-> {}]

get_wildcards(r, requested_output) == gw_loop(r, requested_output, 1, None, 0)

\* Rule._expand_wildcards: err is "" or the exception raised
expand_wildcards(r, requested_output) ==
    IF requested_output = <<>>
    THEN [err |-> "", input |-> rules[r].input, output |-> rules[r].output,
          wildcards |-> {}]
    ELSE LET w == get_wildcards(r, requested_output[1])
         IN  IF w.none
             THEN [err |-> "TypeError", input |-> <<>>, output |-> <<>>, wildcards |-> {}]
             ELSE IF \E k \in 1..Len(rules[r].input) : ~CanFormat(rules[r].input[k], w.b)
             THEN [err |-> "UnresolvedWildcard", input |-> <<>>, output |-> <<>>,
                   wildcards |-> w.b]
             ELSE [err |-> "",
                   input |-> [k \in 1..Len(rules[r].input) |->
                                 format(rules[r].input[k], w.b)],
                   output |-> [k \in 1..Len(rules[r].output) |->
                                 format(rules[r].output[k], w.b)],
                   wildcards |-> w.b]

\* Rule.partition_output: the requested files grouped by their binding, the
\* groups in order of first appearance
RECURSIVE Distinct(_)
Distinct(s) ==
    IF s = <<>> THEN <<>>
    ELSE LET d == Distinct(SubSeq(s, 1, Len(s) - 1))
         IN  IF \E k \in 1..Len(d) : d[k] = s[Len(s)] THEN d ELSE Append(d, s[Len(s)])

partition_output(r, requested_outputs) ==
    LET wc == [k \in 1..Len(requested_outputs) |-> get_wildcards(r, requested_outputs[k])]
        keys == Distinct(wc)
    IN  [g \in 1..Len(keys) |->
            SelectSeq(requested_outputs, LAMBDA f : get_wildcards(r, f) = keys[g])]

\* ----------------------------------------------------------------- storage
Absent == [kind |-> "none", mtime |-> 0]

\* os.path.exists
exists(f) == f \in DOMAIN fs /\ fs[f].kind # "none"

\* os.path.isdir; a directory is "dir" (empty) or "fulldir" (holds an entry)
isdir(f) == f \in DOMAIN fs /\ fs[f].kind \in {"dir", "fulldir"}

\* os.stat(f).st_mtime
mtime(f) == fs[f].mtime

\* Rule._get_missing_files, as a set
get_missing_files(files) == {f \in files : ~exists(f)}

\* Rule._has_missing_files
has_missing_files(files) == \E k \in 1..Len(files) : ~exists(files[k])

Range(s) == {s[k] : k \in 1..Len(s)}

Min(S) == CHOOSE m \in S : \A n \in S : m <= n

\* Rule._need_run
need_run(input, output) ==
    IF output # <<>>
    THEN IF has_missing_files(output) THEN TRUE
         ELSE LET mintime == Min({mtime(f) : f \in Range(output)})
              IN  \E k \in 1..Len(input) :
                      exists(input[k]) /\ mtime(input[k]) >= mintime
    ELSE FALSE

\* a scheduler that never finds a job among the registered ones
is_queued_never(output, registered) == FALSE

\* Rule._is_queued: "output in jobs"; registered is the set of keys of the dict
\* Rule.run is handed, or the set Rule.dryrun is handed
is_queued(output, registered) == output \in registered

\* ---------------------------------------------------------------- resolver
\* the files of input that rule r produces, in input order (produces[rule])
ProducedBy(r, input) == SelectSeq(input, LAMBDA f : is_producer(r, f))

\* a resolver in which the first producer found silently wins
AmbiguousFirstWins(self, input) == FALSE

\* "if i in producer: raise": some input position is claimed a second time,
\* by a later rule or by a later position holding the same path
Ambiguous(self, input) ==
    \E r1, r2 \in RuleIds : \E k1, k2 \in 1..Len(input) :
        /\ r1 # self /\ r2 # self
        /\ (r1 < r2 \/ (r1 = r2 /\ k1 < k2))
        /\ input[k1] = input[k2]
        /\ is_producer(r1, input[k1]) /\ is_producer(r2, input[k2])

\* the set noproducer after the loop
NoProducer(self, input) ==
    {f \in Range(input) : ~\E r \in RuleIds : r # self /\ is_producer(r, f)}

\* the list tovisit: for every producing rule, in registration order, one entry
\* per group of partition_output
RECURSIVE tovisit_from(_, _, _)
tovisit_from(self, input, r) ==
    IF r > Len(rules) THEN <<>>
    ELSE IF r = self \/ ProducedBy(r, input) = <<>>
         THEN tovisit_from(self, input, r + 1)
         ELSE LET groups == partition_output(r, ProducedBy(r, input))
              IN  [g \in 1..Len(groups) |-> [rule |-> r, files |-> groups[g]]]
                  \o tovisit_from(self, input, r + 1)

\* Rule._to_visit: err is "" or the exception raised
to_visit(self, input, missing_output) ==
    IF Ambiguous(self, input)
    THEN [err |-> "Ambiguous", tovisit |-> <<>>]
    ELSE IF missing_output /\ get_missing_files(NoProducer(self, input)) # {}
    THEN [err |-> "MissingInput", tovisit |-> <<>>]
    ELSE [err |-> "", tovisit |-> tovisit_from(self, input, 1)]

\* ------------------------------------------------------------ DAG validator
\* a validator whose children all work on one set: a child is handed the rules
\* its earlier siblings have visited
set_shared(visited, seen) == seen

\* "visited = set(visited)": a child is handed a copy of the caller's set, which
\* holds nothing of what the earlier siblings (seen) have added to theirs
set_copy(visited, seen) == visited

Max(S) == CHOOSE m \in S : \A n \in S : n <= m

\* Rule.check_dag with the set visited it is handed; visited.add(self) is the
\* v below.  Besides err ("" or the exception raised) and the count nodes, the
\* result tells how deep the recursion went (depth), whether every recursive
\* call was handed a set without the rule called (strict), and the rules
\* visited by the call and the calls below it (seen).
RECURSIVE check_dag(_, _, _)
RECURSIVE dag_children(_, _, _, _, _)

\* the trace of a call that went no deeper
DagLeaf(v) == [depth |-> 1, strict |-> TRUE, seen |-> v]

\* check_dag once _to_visit has returned tv
check_dag_visit(v, tv) ==
    IF tv.err # "" THEN [err |-> tv.err, nodes |-> 0, trace |-> DagLeaf(v)]
    ELSE IF \E k \in 1..Len(tv.tovisit) : tv.tovisit[k].rule \in v
    THEN [err |-> "Circular", nodes |-> 0, trace |-> DagLeaf(v)]
    ELSE dag_children(tv.tovisit, 1, v, 1, DagLeaf(v))

\* check_dag once _expand_wildcards has returned e
check_dag_expanded(self, v, e) ==
    IF e.err # "" THEN [err |-> e.err, nodes |-> 0, trace |-> DagLeaf(v)]
    ELSE check_dag_visit(v, to_visit(self, e.input, has_missing_files(e.output)))

check_dag(self, requested_output, visited) ==
    check_dag_expanded(self, visited \cup {self},
                       expand_wildcards(self, requested_output))

\* the trace after the recursive call on tovisit[k], handed the set handed,
\* returned c
dag_trace(tovisit, k, trace, handed, c) ==
    [depth |-> Max({trace.depth, 1 + c.trace.depth}),
     strict |-> (trace.strict /\ c.trace.strict /\ tovisit[k].rule \notin handed),
     seen |-> trace.seen \cup c.trace.seen]

\* "nodes += ..." for the recursive call on tovisit[k] that returned c, then
\* the rest of the loop
dag_child(tovisit, k, v, nodes, t, c) ==
    IF c.err # "" THEN [err |-> c.err, nodes |-> 0, trace |-> t]
    ELSE dag_children(tovisit, k + 1, v, nodes + c.nodes, t)

\* "for rule, files in tovisit: nodes += rule.check_dag(files, visited =
\* set(visited))"
dag_children(tovisit, k, v, nodes, trace) ==
    IF k > Len(tovisit) THEN [err |-> "", nodes |-> nodes, trace |-> trace]
    ELSE LET handed == set_copy(v, trace.seen)
             c == check_dag(tovisit[k].rule, tovisit[k].files, handed)
         IN  dag_child(tovisit, k, v, nodes, dag_trace(tovisit, k, trace, handed, c), c)

\* ------------------------------------------------------- registries explored
\* What an action callable may do in one invocation: w[k] says what it leaves at
\* output k ("keep": untouched, "file", "dir": an empty directory, "fulldir": a
\* directory holding an entry), raises whether it ends by raising.
Kinds == {"keep", "file", "dir", "fulldir"}

Written(n, kind) == [k \in 1..n |-> kind]

\* an action that writes its outputs as files, and may fail after or instead
ActsPlain(n) == {[w |-> Written(n, "file"), raises |-> FALSE],
                 [w |-> Written(n, "file"), raises |-> TRUE],
                 [w |-> Written(n, "keep"), raises |-> FALSE]}

\* an action that may do anything to its outputs
ActsAny(n) == [w : [1..n -> Kinds], raises : BOOLEAN]

NoActs == {}

Rule(name, input, output, hasrun, acts) ==
    [name |-> name, input |-> input, output |-> output, hasrun |-> hasrun, acts |-> acts]

\* T needs p and y, Y needs p: two branches require the output of P
RegDiamond ==
    << Rule("T", << <<"p">>, <<"y">> >>, << <<"t">> >>, TRUE, ActsPlain(1)),
       Rule("P", << >>, << <<"p">> >>, TRUE, ActsPlain(1)),
       Rule("Y", << <<"p">> >>, << <<"y">> >>, TRUE, ActsPlain(1)) >>

\* A needs the output of B and B the output of A
RegCycle ==
    << Rule("A", << <<"b">> >>, << <<"a">> >>, TRUE, ActsPlain(1)),
       Rule("B", << <<"a">> >>, << <<"b">> >>, TRUE, ActsPlain(1)) >>

\* G ("{x}") and H ("f") both match the path f; C needs f, and so does G itself
RuleD == Rule("D", << <<"g">> >>, << >>, FALSE, NoActs)
RuleC == Rule("C", << <<"f">> >>, << >>, FALSE, NoActs)
RuleG == Rule("G", << <<"f">> >>, << <<"{x}">> >>, TRUE, ActsPlain(1))
RuleH == Rule("H", << >>, << <<"f">> >>, TRUE, ActsPlain(1))

RegAmbigGH == <<RuleD, RuleC, RuleG, RuleH>>
RegAmbigHG == <<RuleD, RuleC, RuleH, RuleG>>

\* an aggregating target; m has no producer
RegMissing ==
    << Rule("all", << <<"m">>, <<"k">> >>, << >>, FALSE, NoActs),
       Rule("K", << <<"m">> >>, << <<"k">> >>, TRUE, ActsPlain(1)) >>

\* the scenario of the specification: A writes o/{x}, B turns it into {x}.d
RegChain ==
    << Rule("all", << <<"h", ".", "d">> >>, << >>, FALSE, NoActs),
       Rule("B", << <<"o", "/", "{x}">> >>, << <<"{x}", ".", "d">> >>, TRUE, ActsPlain(1)),
       Rule("A", << >>, << <<"o", "/", "{x}">> >>, TRUE, ActsPlain(1)) >>

\* W has two outputs and an action that may do anything; V needs one of them
RegWrapper ==
    << Rule("V", << <<"u">> >>, << >>, FALSE, NoActs),
       Rule("W", << >>, << <<"u">>, <<"v">> >>, TRUE, ActsAny(2)) >>

\* R has an action and no outputs; it needs y, which Y makes from the p of P
RegReport ==
    << Rule("R", << <<"y">> >>, << >>, TRUE, ActsPlain(0)),
       Rule("Y", << <<"p">> >>, << <<"y">> >>, TRUE, ActsPlain(1)),
       Rule("P", << >>, << <<"p">> >>, TRUE, ActsPlain(1)) >>

\* T needs a and b, which A and B make from nothing: two independent branches
RegFork ==
    << Rule("T", << <<"a">>, <<"b">> >>, << <<"t">> >>, TRUE, ActsPlain(1)),
       Rule("A", << >>, << <<"a">> >>, TRUE, ActsPlain(1)),
       Rule("B", << >>, << <<"b">> >>, TRUE, ActsPlain(1)) >>

Registries == {RegDiamond, RegCycle, RegAmbigGH, RegAmbigHG, RegMissing, RegChain,
               RegWrapper, RegReport, RegFork}

\* the paths that may exist before the first call, per registry
Pre(reg) ==
    IF reg = RegDiamond THEN {<<"p">>, <<"y">>, <<"t">>}
    ELSE IF reg = RegCycle THEN {<<"a">>, <<"b">>}
    ELSE IF reg \in {RegAmbigGH, RegAmbigHG} THEN {<<"f">>, <<"g">>}
    ELSE IF reg = RegMissing THEN {<<"m">>, <<"k">>}
    ELSE IF reg = RegChain THEN {<<"o", "/", "h">>, <<"h", ".", "d">>}
    ELSE IF reg = RegReport THEN {<<"p">>, <<"y">>}
    ELSE IF reg = RegFork THEN {<<"a">>, <<"b">>, <<"t">>}
    ELSE {<<"u">>, <<"v">>}

Files == {<<"p">>, <<"y">>, <<"t">>, <<"a">>, <<"b">>, <<"f">>, <<"g">>, <<"m">>,
          <<"k">>, <<"o">>, <<"o", "/", "h">>, <<"h", ".", "d">>, <<"u">>, <<"v">>}

\* os.path.dirname: the path up to its last "/" (empty when there is none)
dirname(f) ==
    LET ks == {k \in 1..Len(f) : f[k] = "/"}
    IN  IF ks = {} THEN <<>>
        ELSE SubSeq(f, 1, (CHOOSE k \in ks : \A n \in ks : n <= k) - 1)

\* --------------------------------------------------------------------- Init
File(t) == [kind |-> "file", mtime |-> t]
Dir(t) == [kind |-> "dir", mtime |-> t]
FullDir(t) == [kind |-> "fulldir", mtime |-> t]

Idle == [state |-> "idle", entry |-> "", target |-> 0, dry |-> FALSE,
         forcethis |-> FALSE, forceall |-> FALSE, job |-> 0]

Quiet == [touched |-> {}, uptodate |-> FALSE, restarted |-> FALSE]

\* no call was made yet
NoCall == [n |-> 0]

\* the state after the rules of one of regs were registered and setup_pool was
\* called with one of sizes
InitWith(regs, sizes) ==
    /\ workers \in sizes
    /\ rules \in regs
    /\ clock = 0
    /\ \E present \in SUBSET Pre(rules) :
          fs = [f \in Files |->
                  IF f \in present THEN File(0)
                  ELSE IF \E g \in present : dirname(g) = f THEN FullDir(0)
                  ELSE Absent]
    /\ jobs = <<>>
    /\ dryjobs = {}
    /\ visited0 = {}
    /\ pool = <<>>
    /\ stack = <<>>
    /\ call = Idle
    /\ since = Quiet
    /\ ncalls = 0
    /\ prev = NoCall
    /\ cur = NoCall

InitIn(regs) == InitWith(regs, {NumWorkers})

Init == InitIn(Registries)

\* the registry in which two branches share a producer
InitSched == InitIn({RegDiamond})

\* the registry whose target has neither action nor outputs
InitChain == InitIn({RegChain})

\* the registries in which resolution fails or nearly fails
InitResolve == InitIn({RegCycle, RegAmbigGH, RegAmbigHG, RegMissing})

\* the registry whose action may do anything
InitJob == InitIn({RegWrapper})

\* the registry whose target has an action and no outputs
InitDry == InitIn({RegReport})

\* -------------------------------------------------------------- coordinator
Top == stack[Len(stack)]

\* the rule invocations under rule r asked for requested_output: r's own and,
\* through the resolver, those of the producers of its inputs (fuel bounds the
\* descent by the number of rules)
RECURSIVE Under(_, _, _)
UnderVisited(tv, fuel) ==
    UNION {Under(tv[k].rule, tv[k].files, fuel - 1) : k \in 1..Len(tv)}

UnderExpanded(r, e, fuel) ==
    IF e.err # "" \/ fuel = 0 THEN {}
    ELSE {[rule |-> r, input |-> e.input, output |-> e.output]}
         \cup UnderVisited(tovisit_from(r, e.input, 1), fuel)

Under(r, requested_output, fuel) ==
    UnderExpanded(r, expand_wildcards(r, requested_output), fuel)

\* no invocation under the target needs to run
UpToDate(target) ==
    \A inv \in Under(target, <<>>, Len(rules)) :
        has_run(inv.rule) => ~need_run(inv.input, inv.output)

\* the record of a call: its arguments, how it ended ("running" until then),
\* the <<rule, output tuple>> pairs it submitted to the pool, the count check_dag
\* returned, what happened between the end of the call before it and its start,
\* whether the job tables were empty (fresh) and every rule under the target up
\* to date (settled) when it started, and, once it has ended, how many jobs the
\* pool had been handed by then (pooled) and which of them no worker had started
\* (left); for a call of check_dag, how deep it recursed and whether every
\* recursive call was handed a set without the rule called
LogEntry(entry, target, dry, forcethis, forceall, outcome) ==
    [n |-> ncalls + 1, entry |-> entry, target |-> target, dry |-> dry,
     forcethis |-> forcethis, forceall |-> forceall, outcome |-> outcome, sub |-> {},
     nodes |-> 0, touched |-> since.touched, uptodate |-> since.uptodate,
     restarted |-> since.restarted,
     fresh |-> (jobs = <<>> /\ dryjobs = {}), settled |-> UpToDate(target),
     pooled |-> Len(pool), left |-> {}, depth |-> 0, strict |-> TRUE]

\* what is kept of a call once the next one starts: clean says that it was a
\* real-mode call without forcing that returned normally
Summary(entry) ==
    IF entry.n = 0 THEN NoCall
    ELSE [n |-> entry.n, target |-> entry.target, sub |-> entry.sub,
          clean |-> (~entry.dry /\ ~entry.forcethis /\ ~entry.forceall
                       /\ entry.outcome = "returned"),
          dry |-> entry.dry, fresh |-> entry.fresh,
          returned |-> (entry.outcome = "returned")]

NewCall(entry) ==
    /\ ncalls' = ncalls + 1
    /\ prev' = Summary(cur)
    /\ cur' = entry

\* a process calls one entry point, once or repeatedly with the same arguments
Repeats(entry, target, dry, forcethis, forceall) ==
    IF ncalls = 0 THEN TRUE
    ELSE /\ cur.entry = entry /\ cur.target = target /\ cur.dry = dry
         /\ cur.forcethis = forcethis /\ cur.forceall = forceall

\* the call before was the same call in dry mode
Previewed(entry, target, forcethis, forceall) ==
    /\ ncalls > 0
    /\ cur.entry = entry /\ cur.target = target /\ cur.dry
    /\ cur.forcethis = forcethis /\ cur.forceall = forceall

\* the call in progress ends: it returns ("returned") or an exception leaves
\* every frame of the coordinator
EndCall(outcome) ==
    /\ stack' = <<>>
    /\ call' = Idle
    /\ cur' = [cur EXCEPT !.outcome = outcome, !.pooled = Len(pool),
                          !.left = {j \in 1..Len(pool) : pool[j].state = "queued"}]
    /\ UNCHANGED <<ncalls, prev>>

\* the first lines of Rule.run and of Rule.dryrun: _expand_wildcards, _to_visit
\* e is what _expand_wildcards returned
PrologueOf(r, e, forcethis) ==
    LET tv == IF e.err # "" THEN [err |-> e.err, tovisit |-> <<>>]
              ELSE to_visit(r, e.input, has_missing_files(e.output))
    IN  [err |-> tv.err,
         frame |-> [rule |-> r, input |-> e.input, output |-> e.output,
                    wildcards |-> e.wildcards, tovisit |-> tv.tovisit, next |-> 1,
                    todo |-> <<>>, await |-> 1, anyrun |-> FALSE,
                    forcethis |-> forcethis]]

Prologue(r, requested_output, forcethis) ==
    PrologueOf(r, expand_wildcards(r, requested_output), forcethis)

\* Workflow.run_first_rule up to the call of Rule.run / Rule.dryrun
run_first_rule(dry, forcethis, forceall) ==
    /\ call.state = "idle"
    /\ ncalls < MaxRuns
    /\ since' = Quiet
    /\ UNCHANGED <<workers, rules, fs, clock, jobs, dryjobs, pool, stack>>
    /\ IF has_wildcards(1)
       THEN /\ NewCall(LogEntry("run_first_rule", 1, dry, forcethis, forceall,
                                           "WildcardedTarget"))
            /\ UNCHANGED <<call, visited0>>
       ELSE LET c == check_dag(1, <<>>, visited0)
            IN  /\ visited0' = visited0 \cup {1}
                /\ IF c.err # ""
                   THEN /\ NewCall(LogEntry("run_first_rule", 1, dry, forcethis,
                                                       forceall, c.err))
                        /\ UNCHANGED call
                   ELSE /\ NewCall(LogEntry("run_first_rule", 1, dry, forcethis,
                                                       forceall, "running"))
                        /\ call' = [state |-> "start", entry |-> "run_first_rule",
                                    target |-> 1, dry |-> dry, forcethis |-> forcethis,
                                    forceall |-> forceall, job |-> 0]

\* a direct call rule.check_dag(), with its default arguments
CheckDag(r) ==
    /\ call.state = "idle"
    /\ ncalls < MaxRuns
    /\ since' = Quiet
    /\ visited0' = visited0 \cup {r}
    /\ LET c == check_dag(r, <<>>, visited0)
       IN  NewCall([LogEntry("check_dag", r, FALSE, FALSE, FALSE,
                             IF c.err # "" THEN c.err ELSE "returned")
                      EXCEPT !.nodes = c.nodes, !.depth = c.trace.depth,
                             !.strict = c.trace.strict])
    /\ UNCHANGED <<workers, rules, fs, clock, jobs, dryjobs, pool, stack, call>>

\* Workflow.run_rule up to the call of Rule.run / Rule.dryrun
run_rule(r, dry, forcethis, forceall) ==
    /\ call.state = "idle"
    /\ ncalls < MaxRuns
    /\ since' = Quiet
    /\ UNCHANGED <<workers, rules, fs, clock, jobs, dryjobs, visited0, pool, stack>>
    /\ IF has_wildcards(r)
       THEN /\ NewCall(LogEntry("run_rule", r, dry, forcethis, forceall,
                                           "WildcardedTarget"))
            /\ UNCHANGED call
       ELSE /\ NewCall(LogEntry("run_rule", r, dry, forcethis, forceall,
                                           "running"))
            /\ call' = [state |-> "start", entry |-> "run_rule", target |-> r,
                        dry |-> dry, forcethis |-> forcethis, forceall |-> forceall,
                        job |-> 0]

\* the target's Rule.run / Rule.dryrun is entered
\* p is the prologue of the target's Rule.run / Rule.dryrun
BeginWith(p) ==
    IF p.err # ""
    THEN EndCall(p.err)
    ELSE /\ stack' = <<p.frame>>
         /\ call' = [call EXCEPT !.state = "running"]
         /\ UNCHANGED <<ncalls, prev, cur>>

Begin ==
    /\ call.state = "start"
    /\ BeginWith(Prologue(call.target, <<>>, call.forcethis))
    /\ UNCHANGED <<workers, rules, fs, clock, jobs, dryjobs, visited0, pool, since>>

\* "for rule, files in tovisit: rule.run(files, jobs, forceall = forceall)":
\* the next child is entered
CallChildWith(p) ==
    IF Len(stack) >= MaxDepth
    THEN EndCall("RecursionError")
    ELSE IF p.err # ""
    THEN EndCall(p.err)
    ELSE /\ stack' = Append([stack EXCEPT ![Len(stack)].next = @ + 1], p.frame)
         /\ UNCHANGED <<call, ncalls, prev, cur>>

CallChild ==
    /\ call.state = "running"
    /\ stack # <<>>
    /\ Top.next <= Len(Top.tovisit)
    /\ CallChildWith(Prologue(Top.tovisit[Top.next].rule, Top.tovisit[Top.next].files,
                              FALSE))
    /\ UNCHANGED <<workers, rules, fs, clock, jobs, dryjobs, visited0, pool, since>>

\* a caller that drops the handles of its children
PendingDropped(frame) == {}

\* the handles of todo not yet passed by "for job in todo: if job: job.get()"
Pending(frame) == {k \in frame.await..Len(frame.todo) : frame.todo[k] # 0}

\* a coordinator that goes on when a handle reports failure
AwaitIgnoringFailure ==
    /\ call.state = "running"
    /\ stack # <<>>
    /\ ~call.dry
    /\ Top.next > Len(Top.tovisit)
    /\ Pending(Top) # {}
    /\ pool[Top.todo[Min(Pending(Top))]].state = "done"
    /\ stack' = [stack EXCEPT ![Len(stack)].await = Min(Pending(Top)) + 1]
    /\ UNCHANGED <<workers, rules, fs, clock, jobs, dryjobs, visited0, pool, since, call, ncalls,
                   prev, cur>>

\* job.get() on the next handle of todo: blocks until the job is done and
\* raises what the job raised
Await ==
    /\ call.state = "running"
    /\ stack # <<>>
    /\ ~call.dry
    /\ Top.next > Len(Top.tovisit)
    /\ Pending(Top) # {}
    /\ LET k == Min(Pending(Top))
           j == Top.todo[k]
       IN  /\ pool[j].state = "done"
           /\ IF pool[j].result = "ok"
              THEN /\ stack' = [stack EXCEPT ![Len(stack)].await = k + 1]
                   /\ UNCHANGED <<call, ncalls, prev, cur>>
              ELSE EndCall(pool[j].result)
    /\ UNCHANGED <<workers, rules, fs, clock, jobs, dryjobs, visited0, pool, since>>

\* Rule.run returns ret (a handle, 0 for None) to its caller
Return(ret) ==
    IF Len(stack) = 1
    THEN /\ stack' = <<>>
         /\ call' = [call EXCEPT !.state = "final", !.job = ret]
    ELSE /\ stack' = [SubSeq(stack, 1, Len(stack) - 1)
                        EXCEPT ![Len(stack) - 1].todo = Append(@, ret)]
         /\ UNCHANGED call

\* the job apply_async queues: run_wrapper with its arguments; wrote tells, once
\* the action has acted, whether it wrote every output as a file
NewJob(frame) ==
    [rule |-> frame.rule, input |-> frame.input, output |-> frame.output,
     wildcards |-> frame.wildcards, state |-> "queued", raised |-> FALSE,
     result |-> "", detail |-> <<>>, run |-> ncalls, wrote |-> FALSE]

\* a scheduler that forces every rule it visits
MustRunForced(frame) == has_run(frame.rule)

\* "self.has_run() and (forcethis or forceall or self._need_run(input, output))"
MustRun(frame) ==
    has_run(frame.rule)
    /\ (frame.forcethis \/ call.forceall \/ need_run(frame.input, frame.output))

\* the last lines of Rule.run, after every handle of todo was awaited
Decide ==
    /\ call.state = "running"
    /\ stack # <<>>
    /\ ~call.dry
    /\ Top.next > Len(Top.tovisit)
    /\ Pending(Top) = {}
    /\ IF MustRun(Top)
       THEN IF ~is_queued(Top.output, DOMAIN jobs)
            THEN /\ pool' = Append(pool, NewJob(Top))
                 /\ jobs' = [t \in DOMAIN jobs \cup {Top.output} |->
                               IF t = Top.output THEN Len(pool) + 1 ELSE jobs[t]]
                 /\ cur' = [cur EXCEPT !.sub = @ \cup {<<Top.rule, Top.output>>}]
                 /\ UNCHANGED <<ncalls, prev>>
                 /\ Return(Len(pool) + 1)
            ELSE /\ Return(jobs[Top.output])
                 /\ UNCHANGED <<pool, jobs, ncalls, prev, cur>>
       ELSE /\ Return(0)
            /\ UNCHANGED <<pool, jobs, ncalls, prev, cur>>
    /\ UNCHANGED <<workers, rules, fs, clock, dryjobs, visited0, since>>

\* a dry run that does not gate a rule on what its children reported
MustReportOwn(frame) ==
    has_run(frame.rule)
    /\ (frame.forcethis \/ call.forceall \/ need_run(frame.input, frame.output))

\* "self.has_run() and (forcethis or forceall or any_run or self._need_run(..))"
MustReport(frame) ==
    has_run(frame.rule)
    /\ (frame.forcethis \/ call.forceall \/ frame.anyrun
        \/ need_run(frame.input, frame.output))

\* a dry run that hands the pool the jobs it reports
DecideDrySubmitting ==
    /\ call.state = "running"
    /\ stack # <<>>
    /\ call.dry
    /\ Top.next > Len(Top.tovisit)
    /\ dryjobs' = dryjobs \cup {Top.output}
    /\ pool' = Append(pool, NewJob(Top))
    /\ IF Len(stack) = 1
       THEN EndCall("returned")
       ELSE /\ stack' = SubSeq(stack, 1, Len(stack) - 1)
            /\ UNCHANGED <<call, ncalls, prev, cur>>
    /\ UNCHANGED <<workers, rules, fs, clock, jobs, visited0, since>>

\* the last lines of Rule.dryrun; the entry point ignores the root's result
DecideDry ==
    /\ call.state = "running"
    /\ stack # <<>>
    /\ call.dry
    /\ Top.next > Len(Top.tovisit)
    /\ dryjobs' = IF MustReport(Top) /\ ~is_queued(Top.output, dryjobs)
                  THEN dryjobs \cup {Top.output}
                  ELSE dryjobs
    /\ IF Len(stack) = 1
       THEN EndCall("returned")
       ELSE /\ stack' = [SubSeq(stack, 1, Len(stack) - 1)
                           EXCEPT ![Len(stack) - 1].anyrun = @ \/ MustReport(Top)]
            /\ UNCHANGED <<call, ncalls, prev, cur>>
    /\ UNCHANGED <<workers, rules, fs, clock, jobs, visited0, pool, since>>

\* "if job: job.get()" of the entry point, then its return
Finish ==
    /\ call.state = "final"
    /\ IF call.job = 0
       THEN EndCall("returned")
       ELSE /\ pool[call.job].state = "done"
            /\ EndCall(IF pool[call.job].result = "ok" THEN "returned"
                       ELSE pool[call.job].result)
    /\ UNCHANGED <<workers, rules, fs, clock, jobs, dryjobs, visited0, pool, since>>

\* ------------------------------------------------------------------ workers
Busy == {j \in 1..Len(pool) : pool[j].state = "acted"}
Queued == {j \in 1..Len(pool) : pool[j].state = "queued"}
AllDone == \A j \in 1..Len(pool) : pool[j].state = "done"

\* a pool in which the coordinator holds one of the processes while a call runs
FreeBesidesCoordinator ==
    Cardinality(Busy) + (IF call.state = "idle" THEN 0 ELSE 1) < workers

\* a process of the pool is free to take a job
Free == Cardinality(Busy) < workers

\* the directories run_wrapper creates before the action: os.makedirs(dir) for
\* every output whose dirname is not empty and does not exist
MakeDirs(store, output, stamp) ==
    [f \in Files |->
        IF store[f].kind = "none" /\ \E k \in 1..Len(output) : dirname(output[k]) = f
        THEN Dir(stamp) ELSE store[f]]

\* what the action leaves in storage: output k becomes what act.w[k] says, and
\* the directory it lies in then holds an entry
ActWrites(store, output, act, stamp) ==
    [f \in Files |->
        IF \E k \in 1..Len(output) : output[k] = f /\ act.w[k] # "keep"
        THEN LET k == CHOOSE n \in 1..Len(output) :
                        output[n] = f /\ act.w[n] # "keep"
                            /\ \A n2 \in 1..Len(output) :
                                 (output[n2] = f /\ act.w[n2] # "keep") => n2 <= n
             IN  [kind |-> act.w[k], mtime |-> stamp]
        ELSE IF \E k \in 1..Len(output) :
                    dirname(output[k]) = f /\ act.w[k] # "keep" /\ store[f].kind = "dir"
        THEN [store[f] EXCEPT !.kind = "fulldir"]
        ELSE store[f]]

\* run_wrapper, from its start to the moment the action has returned or raised:
\* a free worker takes the oldest queued job
JobRun(j, act, stamp) ==
    /\ j \in Queued
    /\ \A i \in Queued : j <= i
    /\ Free
    /\ act \in rules[pool[j].rule].acts
    /\ stamp \in {clock, clock + 1}
    /\ stamp <= MaxTime
    /\ clock' = stamp
    /\ fs' = ActWrites(MakeDirs(fs, pool[j].output, stamp), pool[j].output, act, stamp)
    /\ pool' = [pool EXCEPT ![j].state = "acted", ![j].raised = act.raises,
                             ![j].wrote = \A k \in 1..Len(act.w) : act.w[k] = "file"]
    /\ UNCHANGED <<workers, rules, jobs, dryjobs, visited0, stack, call, since, ncalls, prev, cur>>

\* "for o in output: if os.path.isdir(o): os.rmdir(o) elif os.path.exists(o):
\* os.remove(o)"; os.rmdir raises OSError on a directory that is not empty and
\* the loop ends there.  The result is the storage left and the error raised.
RECURSIVE Cleanup(_, _, _)
Cleanup(store, output, k) ==
    IF k > Len(output) THEN [store |-> store, err |-> "ActionFailed"]
    ELSE IF store[output[k]].kind = "fulldir" THEN [store |-> store, err |-> "OSError"]
    ELSE Cleanup([store EXCEPT ![output[k]] = Absent], output, k + 1)

\* a job body that does not look for its outputs
MissingUnchecked(output) == {}

\* "for o in output: if not os.path.exists(o): raise RuleException(...)"
Missing(output) == {k \in 1..Len(output) : ~exists(output[k])}

\* run_wrapper, from the action's return or raise to its end
JobEnd(j) ==
    /\ j \in Busy
    /\ IF pool[j].raised
       THEN LET c == Cleanup(fs, pool[j].output, 1)
            IN  /\ fs' = c.store
                /\ pool' = [pool EXCEPT ![j].state = "done", ![j].result = c.err]
       ELSE /\ fs' = fs
            /\ IF Missing(pool[j].output) # {}
               THEN pool' = [pool EXCEPT ![j].state = "done",
                                         ![j].result = "OutputNotProduced",
                                         ![j].detail =
                                            pool[j].output[Min(Missing(pool[j].output))]]
               ELSE pool' = [pool EXCEPT ![j].state = "done", ![j].result = "ok"]
    /\ UNCHANGED <<workers, rules, clock, jobs, dryjobs, visited0, stack, call, since, ncalls, prev, cur>>

\* -------------------------------------------------------------- environment
\* between two calls a file is touched: its modification time is raised above
\* every time in storage
Touch(f) ==
    /\ call.state = "idle"
    /\ AllDone
    /\ ncalls > 0
    /\ ncalls < MaxRuns
    /\ since.touched = {}
    /\ exists(f)
    /\ clock < MaxTime
    /\ clock' = clock + 1
    /\ fs' = [fs EXCEPT ![f].mtime = clock + 1]
    /\ since' = [since EXCEPT !.touched = {f}, !.uptodate = UpToDate(cur.target)]
    /\ UNCHANGED <<workers, rules, jobs, dryjobs, visited0, pool, stack, call, ncalls, prev, cur>>

\* the process ends and a new one is started on the same rules and storage:
\* the default arguments and the pool are new
Restart ==
    /\ call.state = "idle"
    /\ AllDone
    /\ ncalls > 0
    /\ ncalls < MaxRuns
    /\ ~since.restarted
    /\ jobs' = <<>>
    /\ dryjobs' = {}
    /\ visited0' = {}
    /\ pool' = <<>>
    /\ since' = [since EXCEPT !.restarted = TRUE]
    /\ UNCHANGED <<workers, rules, fs, clock, stack, call, ncalls, prev, cur>>

Next ==
    \/ \E dry, forcethis, forceall \in BOOLEAN :
          /\ Repeats("run_first_rule", 1, dry, forcethis, forceall)
          /\ run_first_rule(dry, forcethis, forceall)
    \/ \E r \in RuleIds : \E dry, forcethis, forceall \in BOOLEAN :
          /\ Repeats("run_rule", r, dry, forcethis, forceall)
          /\ run_rule(r, dry, forcethis, forceall)
    \/ \E r \in RuleIds :
          /\ Repeats("check_dag", r, FALSE, FALSE, FALSE)
          /\ CheckDag(r)
    \/ Begin
    \/ CallChild
    \/ Await
    \/ Decide
    \/ DecideDry
    \/ Finish
    \/ \E j \in 1..Len(pool) : \E act \in rules[pool[j].rule].acts :
          \E stamp \in 0..MaxTime : JobRun(j, act, stamp)
    \/ \E j \in 1..Len(pool) : JobEnd(j)
    \/ \E f \in Files : Touch(f)
    \/ Restart

Spec == Init /\ [][Next]_vars

SpecSched == InitSched /\ [][Next]_vars

SpecChain == InitChain /\ [][Next]_vars

SpecResolve == InitResolve /\ [][Next]_vars

SpecJob == InitJob /\ [][Next]_vars

\* as Next, and a call in dry mode may be followed by the same call in real mode
NextDry ==
    \/ Next
    \/ \E forcethis, forceall \in BOOLEAN :
          /\ Previewed("run_first_rule", 1, forcethis, forceall)
          /\ run_first_rule(FALSE, forcethis, forceall)
    \/ \E r \in RuleIds : \E forcethis, forceall \in BOOLEAN :
          /\ Previewed("run_rule", r, forcethis, forceall)
          /\ run_rule(r, FALSE, forcethis, forceall)

SpecDry == InitDry /\ [][NextDry]_vars

\* ------------------------------------------------------------------- claims
JobIds == 1..Len(pool)

\* the jobs submitted by the latest call
JobsOfCall == {j \in JobIds : pool[j].run = cur.n}

\* the handles held in the todo list of some frame
Held(frame) == {frame.todo[k] : k \in 1..Len(frame.todo)} \ {0}

\* C1: within one call, no two jobs are submitted for the same tuple of output
\* paths, and every handle a frame got from a child is the one registered in the
\* job table for that tuple.
C1_OneJobPerOutputTuple ==
    /\ \A i, j \in JobIds :
          (pool[i].run = pool[j].run /\ pool[i].output = pool[j].output) => i = j
    /\ \A k \in 1..Len(stack) : \A h \in Held(stack[k]) :
          pool[h].output \in DOMAIN jobs /\ jobs[pool[h].output] = h

\* C1 witness: two frames of one traversal hold the handle of the same job, which
\* the call submitted once (the second request reused it)
C1_Witness ==
    /\ Len(stack) >= 2
    /\ \E h \in JobsOfCall :
          /\ h \in Held(stack[1]) /\ h \in Held(stack[2])
          /\ Cardinality({j \in JobsOfCall : pool[j].output = pool[h].output}) = 1

\* a job of the latest call that is queued or running
Unfinished(j) == j \in JobsOfCall /\ pool[j].state # "done"

\* job q produces an input of job c
Feeds(q, c) == Range(pool[q].output) \cap Range(pool[c].input) # {}

\* C2: no job is submitted or running while a job of the same call that produces
\* one of its inputs is still unfinished.
C2_ProducerDoneBeforeConsumer ==
    \A c, q \in JobIds : ~(Unfinished(c) /\ Unfinished(q) /\ Feeds(q, c))

\* a second call of the same entry point with the same arguments, made after a
\* real-mode call without forcing that returned normally
SecondRun == cur.n > 0 /\ prev.n > 0 /\ prev.clean

\* C3: a second run of a target, with nothing touched since the first run
\* returned, submits no job.
C3_SecondRunSubmitsNothing ==
    (SecondRun /\ cur.touched = {}) => cur.sub = {}

\* the invocations that consume f, and those that consume an output of one of
\* them, and so on (n rounds)
RECURSIVE Affected(_, _, _)
Affected(f, invs, n) ==
    IF n = 0 THEN {inv \in invs : f \in Range(inv.input)}
    ELSE LET a == Affected(f, invs, n - 1)
         IN  a \cup {inv \in invs :
                       \E up \in a : Range(up.output) \cap Range(inv.input) # {}}

\* the <<rule, output tuple>> pairs that must run again after f was touched
MustRerun(f) ==
    LET invs == Under(cur.target, <<>>, Len(rules))
    IN  {<<inv.rule, inv.output>> :
            inv \in {i \in Affected(f, invs, Len(rules)) : has_run(i.rule)}}

\* C4: when every rule under the target was up to date, one input was touched
\* and the target was run again, the run that returns has submitted exactly the
\* rules that consume the touched file and the rules downstream of them.
C4_TouchedRuleAndDownstreamRerun ==
    (SecondRun /\ cur.touched # {} /\ cur.uptodate /\ cur.outcome = "returned")
        => \A f \in cur.touched : cur.sub = MustRerun(f)

\* C5: with the two rules that need each other, every call that has ended has
\* ended in the circular-dependency error, and no job was submitted.
C5_CycleEndsInCircularError ==
    (rules = RegCycle /\ cur.n > 0 /\ cur.outcome # "running")
        => (cur.outcome = "Circular" /\ pool = <<>>)

\* the rules whose output patterns fully match f
Producers(f) == {r \in RuleIds : is_producer(r, f)}

\* C6, as claimed: no rule invocation gets past resolution when one of its
\* inputs is matched by the outputs of two rules.
C6_TwoProducersAlwaysAmbiguous ==
    \A k \in 1..Len(stack) : \A f \in Range(stack[k].input) :
        Cardinality(Producers(f)) < 2

\* an input of rule self is matched by the outputs of two rules other than self
TwoOthers(self, input) ==
    \E f \in Range(input) : Cardinality(Producers(f) \ {self}) >= 2

\* C6, amended: no rule invocation gets past resolution when one of its inputs
\* is matched by the outputs of two rules other than the resolving rule, and a
\* call whose target has such an input ends in the ambiguous-producer error.
C6_TwoOtherProducersAmbiguous ==
    /\ \A k \in 1..Len(stack) : ~TwoOthers(stack[k].rule, stack[k].input)
    /\ (cur.n > 0 /\ ~has_wildcards(cur.target)
          /\ TwoOthers(cur.target, rules[cur.target].input))
        => (cur.outcome = "Ambiguous" \/ call.state = "start")

\* C6 witness: with H registered before G, a call on C, whose input f both match,
\* has ended in the ambiguous-producer error
C6_Witness ==
    /\ rules = RegAmbigHG
    /\ cur.n > 0 /\ cur.target = 2 /\ cur.entry = "run_rule"
    /\ cur.outcome = "Ambiguous"

\* C7: no rule invocation gets past resolution while one of its inputs has no
\* producer and does not exist.
C7_MissingInputAlwaysRaises ==
    \A k \in 1..Len(stack) : \A f \in NoProducer(stack[k].rule, stack[k].input) :
        exists(f)

\* C8: a job whose action raised has ended with the action-failed error and
\* none of its outputs exists.
C8_FailedActionLeavesNoOutput ==
    \A j \in JobIds : (pool[j].state = "done" /\ pool[j].raised)
        => /\ pool[j].result = "ActionFailed"
           /\ \A o \in Range(pool[j].output) : ~exists(o)

\* C9: a job whose action returned ends "ok" only with every declared output in
\* storage; otherwise it ends with the output-not-produced error naming the first
\* missing output, and whoever awaited its handle did not get past it.
C9_MissingOutputFailsJob ==
    /\ \A j \in JobIds : (pool[j].state = "done" /\ ~pool[j].raised)
          => IF \A o \in Range(pool[j].output) : exists(o)
             THEN pool[j].result = "ok"
             ELSE /\ pool[j].result = "OutputNotProduced"
                  /\ \E k \in 1..Len(pool[j].output) :
                        /\ pool[j].detail = pool[j].output[k]
                        /\ ~exists(pool[j].output[k])
                        /\ \A i \in 1..(k - 1) : exists(pool[j].output[i])
    /\ \A k \in 1..Len(stack) : \A i \in 1..(stack[k].await - 1) :
          stack[k].todo[i] # 0 => pool[stack[k].todo[i]].result = "ok"
    /\ (cur.n > 0 /\ cur.outcome = "returned")
          => \A j \in JobsOfCall : pool[j].result = "ok"

\* C9 witness: a job ended with the output-not-produced error and the call that
\* awaited it ended with that error
C9_Witness ==
    /\ cur.n > 0 /\ cur.outcome = "OutputNotProduced"
    /\ \E j \in JobsOfCall :
          pool[j].result = "OutputNotProduced" /\ pool[j].detail = <<"v">>

ActionsUnder(target) ==
    {<<inv.rule, inv.output>> :
        inv \in {i \in Under(target, <<>>, Len(rules)) : has_run(i.rule)}}

\* a real-mode call that started with empty job tables and has returned
FreshReturned == cur.n > 0 /\ ~cur.dry /\ cur.fresh /\ cur.outcome = "returned"

\* C11: in a call that started with an empty job table and has returned: with
\* forcethis alone on a tree that was up to date, exactly the target's job was
\* submitted (none when the target has no action); with forceall, exactly the
\* invocations under the target that have an action were submitted, each by one
\* job.  And a frame below the target never carries forcethis.
C11_ForcingScope ==
    /\ (FreshReturned /\ cur.forcethis /\ ~cur.forceall /\ cur.settled)
          => cur.sub = ActionsUnder(cur.target)
                         \cap {<<cur.target, rules[cur.target].output>>}
    /\ (FreshReturned /\ cur.forceall)
          => /\ cur.sub = ActionsUnder(cur.target)
             /\ (~since.restarted => Cardinality(JobsOfCall) = Cardinality(cur.sub))
    /\ \A k \in 2..Len(stack) : ~stack[k].forcethis

\* C11 witness: a forcethis call on the target of the diamond, started on an up
\* to date tree, has returned after submitting the target's job alone
C11_Witness ==
    /\ FreshReturned /\ cur.forcethis /\ ~cur.forceall /\ cur.settled
    /\ rules = RegDiamond /\ cur.target = 1
    /\ cur.sub = {<<1, << <<"t">> >> >>}
    /\ ~since.restarted /\ Cardinality(JobsOfCall) = 1

\* C14: while a real-mode call is in progress the job table holds only handles
\* registered by that call; and a call that forces its target, a rule with an
\* action, has submitted the target's job when it returns, whatever earlier
\* calls were made in the process.
C14_JobTableOfOneCall ==
    /\ (call.state # "idle" /\ ~call.dry)
          => \A t \in DOMAIN jobs : pool[jobs[t]].run = cur.n
    /\ (cur.n > 0 /\ ~cur.dry /\ cur.outcome = "returned" /\ cur.forcethis
          /\ cur.entry # "check_dag" /\ has_run(cur.target))
          => <<cur.target, rules[cur.target].output>> \in cur.sub

\* how a job can fail
JobFailures == {"ActionFailed", "OutputNotProduced", "OSError"}

\* C15: no frame of the coordinator goes on past a handle that reported failure;
\* a call that ended with the failure of a job has left every frame, and the
\* pool has been handed no job since it ended.
C15_FailureEndsTheCall ==
    /\ \A k \in 1..Len(stack) : \A i \in 1..(stack[k].await - 1) :
          stack[k].todo[i] # 0 => pool[stack[k].todo[i]].result = "ok"
    /\ (cur.n > 0 /\ cur.outcome \in JobFailures)
          => /\ stack = <<>> /\ call.state = "idle"
             /\ ~since.restarted
                   => /\ Len(pool) = cur.pooled
                      /\ \E j \in JobIds : pool[j].result = cur.outcome

\* C15 witness: the call has ended with the failure of a job, and a job of the
\* same call that no worker had started by then has since run and written its
\* output
C15_Witness ==
    /\ cur.n > 0 /\ cur.outcome \in JobFailures /\ ~since.restarted
    /\ \E j \in cur.left \cap JobsOfCall :
          /\ pool[j].state = "done" /\ pool[j].result = "ok"
          /\ \A o \in Range(pool[j].output) : exists(o)

\* C16: a dry-mode call hands the pool no job, registers no handle and does not
\* end with the failure of a job; and no step of the coordinator in dry mode
\* changes storage, the clock, the pool or the job table of Rule.run.
C16_DryRunHasNoEffect ==
    /\ [](cur.n > 0 /\ cur.dry
            => /\ cur.sub = {} /\ JobsOfCall = {}
               /\ cur.outcome \notin JobFailures)
    /\ [][(call.state # "idle" /\ call.dry)
            => (fs' = fs /\ clock' = clock /\ pool' = pool /\ jobs' = jobs)]_vars

\* C16 witness: a dry-mode call with forceall has returned and reported output
\* tuples, one of them missing from storage, with nothing handed to the pool
C16_Witness ==
    /\ cur.n > 0 /\ cur.dry /\ cur.forceall /\ cur.outcome = "returned"
    /\ \E t \in dryjobs : \E k \in 1..Len(t) : ~exists(t[k])
    /\ Cardinality(dryjobs) >= 2
    /\ pool = <<>>

\* C17: the count a call of check_dag returns is the number of distinct rule
\* invocations under the rule it was started at, that rule's own included.
C17_CheckDagCountsDistinct ==
    (cur.n > 0 /\ cur.entry = "check_dag" /\ cur.outcome = "returned")
        => cur.nodes = Cardinality(Under(cur.target, <<>>, Len(rules)))

\* a real-mode call that has returned, made right after the same call in dry
\* mode had returned in a process that had made no call before, with nothing
\* touched in between, and in which every action wrote all its outputs
DryThenReal ==
    /\ cur.n > 0 /\ ~cur.dry /\ cur.outcome = "returned"
    /\ prev.n > 0 /\ prev.dry /\ prev.fresh /\ prev.returned
    /\ cur.touched = {} /\ ~cur.restarted /\ ~since.restarted
    /\ \A j \in JobsOfCall : pool[j].wrote

\* the output tuples for which the latest call submitted a job
Submitted == {p[2] : p \in cur.sub}

NextDag ==
    \/ \E r \in RuleIds :
          /\ Repeats("check_dag", r, FALSE, FALSE, FALSE)
          /\ CheckDag(r)
    \/ Restart

SpecDag == Init /\ [][NextDag]_vars

\* how check_dag can end by raising
DagErrors == {"Circular", "Ambiguous", "MissingInput", "TypeError", "UnresolvedWildcard"}

\* C18: every call of check_dag ends, with a count or with an error; it never
\* recursed deeper than there are rules, every recursive call was handed a set
\* that did not hold the rule called (so that the sets grow strictly along a
\* path), the two rules that need each other end it with the circular error,
\* and in the diamond no branch sees what its sibling visited: the call returns.
C18_CheckDagEnds ==
    (cur.n > 0 /\ cur.entry = "check_dag")
        => /\ cur.outcome \in DagErrors \cup {"returned"}
           /\ cur.outcome = "returned" => cur.nodes >= 1
           /\ cur.depth >= 1 /\ cur.depth <= Len(rules)
           /\ cur.strict
           /\ rules = RegCycle => cur.outcome = "Circular"
           /\ rules = RegDiamond => cur.outcome = "returned"

\* C18 witness: check_dag started at the target of the diamond has returned
\* after recursing through both branches down to the rule they share
C18_Witness ==
    /\ cur.n > 0 /\ cur.entry = "check_dag" /\ cur.outcome = "returned"
    /\ rules = RegDiamond /\ cur.target = 1
    /\ cur.depth = 3 /\ cur.nodes = 4


\* ---------------------------------------------------------- rule definition
\* number of add_output calls made on the rule under definition
MaxAdds == 2

\* the fields of a rule that Rule.__init__ creates and add_output fills
NewRule(name) ==
    [name |-> name, input |-> <<>>, output |-> <<>>, regex_output |-> <<>>,
     wildcard_names |-> {}]

\* the templates handed to add_output: without wildcards, with x (two of them),
\* with y
Templates == {<<"a">>, <<"{x}">>, <<"a", "{x}">>, <<"{y}">>}

\* an item of the list add_output is handed: a template or a list of templates
Leaf(t) == [islist |-> FALSE, t |-> t, items |-> <<>>]
List(items) == [islist |-> TRUE, t |-> <<>>, items |-> items]

Leaves == {Leaf(t) : t \in Templates}
Items ==
    Leaves \cup {List(<<i>>) : i \in Leaves} \cup {List(<<i, j>>) : i, j \in Leaves}
OutputArgs == {<<i>> : i \in Items} \cup {<<i, j>> : i, j \in Items}

\* an add_output that appends every item
add_item_unchecked(rule, item) ==
    [rule |-> [rule EXCEPT !.output = Append(@, item),
                           !.regex_output = Append(@, to_regex(item)),
                           !.wildcard_names = IF rule.output = <<>>
                                              THEN get_wildcard_names(item) ELSE @],
     err |-> ""]

\* the else branch of the loop of Rule.add_output, for an item that is no list
add_item(rule, item) ==
    LET wildcards == get_wildcard_names(item)
    IN  IF rule.output # <<>> /\ rule.wildcard_names # wildcards
        THEN [rule |-> rule, err |-> "RuleException"]
        ELSE [rule |-> [rule EXCEPT !.output = Append(@, item),
                                    !.regex_output = Append(@, to_regex(item)),
                                    !.wildcard_names = IF rule.output = <<>>
                                                       THEN wildcards ELSE @],
              err |-> ""]

\* Rule.add_output: the items in order, a list by a recursive call; the first
\* exception ends the call and leaves what was appended before it
RECURSIVE add_output(_, _)
add_output(rule, output) ==
    IF output = <<>> THEN [rule |-> rule, err |-> ""]
    ELSE LET item == Head(output)
             r == IF item.islist THEN add_output(rule, item.items)
                  ELSE add_item(rule, item.t)
         IN  IF r.err # "" THEN r ELSE add_output(r.rule, Tail(output))

\* the templates of a nested list, left to right
RECURSIVE Flatten(_)
Flatten(output) ==
    IF output = <<>> THEN <<>>
    ELSE (IF Head(output).islist THEN Flatten(Head(output).items)
          ELSE <<Head(output).t>>) \o Flatten(Tail(output))

\* the number of leading templates of flat that declare the set names
RECURSIVE Agreeing(_, _)
Agreeing(flat, names) ==
    IF flat = <<>> \/ get_wildcard_names(Head(flat)) # names THEN 0
    ELSE 1 + Agreeing(Tail(flat), names)

\* the workflow file calls add_output on the rule under definition; cur keeps
\* the rule as it was before the call, the templates handed in and how many of
\* them agree with the outputs stored before them
AddOutput(output) ==
    /\ ncalls < MaxAdds
    /\ LET rule == rules[1]
           r == add_output(rule, output)
           flat == Flatten(output)
           names == IF rule.output # <<>> THEN get_wildcard_names(rule.output[1])
                    ELSE get_wildcard_names(flat[1])
       IN  /\ rules' = <<r.rule>>
           /\ cur' = [n |-> ncalls + 1, entry |-> "add_output", outcome |-> r.err,
                      before |-> rule, given |-> Len(flat),
                      agreeing |-> SubSeq(flat, 1, Agreeing(flat, names))]
    /\ ncalls' = ncalls + 1
    /\ UNCHANGED <<workers, fs, clock, jobs, dryjobs, visited0, pool, stack, call, since,
                   prev>>

InitDefine ==
    /\ workers = NumWorkers
    /\ rules = <<NewRule("R")>>
    /\ fs = [f \in Files |-> Absent]
    /\ clock = 0
    /\ jobs = <<>>
    /\ dryjobs = {}
    /\ visited0 = {}
    /\ pool = <<>>
    /\ stack = <<>>
    /\ call = Idle
    /\ since = Quiet
    /\ ncalls = 0
    /\ prev = NoCall
    /\ cur = NoCall

NextDefine == \E output \in OutputArgs : AddOutput(output)

SpecDefine == InitDefine /\ [][NextDefine]_vars

\* C12: at every point of the definition of a rule, every stored output template
\* declares the rule's wildcard_names and regex_output holds the compiled
\* templates; and an add_output call appended exactly the templates that come
\* before the first one declaring another set, raising the rule-definition error
\* if and only if there was such a one.
C12_OutputsShareWildcardNames ==
    LET rule == rules[1]
    IN  /\ \A k \in 1..Len(rule.output) :
              get_wildcard_names(rule.output[k]) = rule.wildcard_names
        /\ rule.regex_output = [k \in 1..Len(rule.output) |-> to_regex(rule.output[k])]
        /\ cur.n > 0 =>
              /\ rule.output = cur.before.output \o cur.agreeing
              /\ (cur.outcome = "RuleException") <=> (Len(cur.agreeing) < cur.given)
              /\ cur.outcome \in {"", "RuleException"}

\* C12 witness: the first stored output has no wildcards, and a later call with
\* a nested list was rejected at a template with a wildcard after it had appended
\* a template
C12_Witness ==
    /\ cur.n = 2 /\ cur.outcome = "RuleException"
    /\ cur.before.output # <<>> /\ cur.before.wildcard_names = {}
    /\ Len(cur.agreeing) = 1 /\ cur.given >= 3
    /\ Len(rules[1].output) = Len(cur.before.output) + 1

\* --------------------------------------------------------- wildcard matching
\* longest template (in tokens) and longest bound value (in characters)
MaxLen == 3
MaxVal == 2

SeqsUpTo(S, n) == UNION {[1..k -> S] : k \in 1..n}

\* templates over the literals "a" and "." and the placeholders, every
\* placeholder at most once
MatchTemplates ==
    {t \in SeqsUpTo({"a", ".", "{x}", "{y}"}, MaxLen) :
        \A i, j \in 1..Len(t) : (IsWild(t[i]) /\ t[i] = t[j]) => i = j}

Values == SeqsUpTo({"a", "b"}, MaxVal)

\* the bindings of the names W to values of V
Bindings(W, V) == {{<<n, f[n]>> : n \in W} : f \in [W -> V]}

\* the non-empty pieces of a path
Pieces(path) ==
    {SubSeq(path, i, j) : i \in 1..Len(path), j \in 1..Len(path)} \ {<<>>}

\* binding b is the only one that builds its path from template t
OnlyParse(t, b) ==
    \A c \in Bindings(get_wildcard_names(t), Pieces(format(t, b))) :
        format(t, c) = format(t, b) => c = b

InitMatch ==
    /\ workers = NumWorkers
    /\ \E t \in MatchTemplates :
          /\ rules = <<Rule("R", <<>>, <<t>>, TRUE, NoActs)>>
          /\ \E b \in Bindings(get_wildcard_names(t), Values) :
                cur = [n |-> 0, wildcards |-> b]
    /\ fs = [f \in Files |-> Absent]
    /\ clock = 0
    /\ jobs = <<>>
    /\ dryjobs = {}
    /\ visited0 = {}
    /\ pool = <<>>
    /\ stack = <<>>
    /\ call = Idle
    /\ since = Quiet
    /\ ncalls = 0
    /\ prev = NoCall

\* the path is built from the template and the binding, and rule.get_wildcards
\* is called on it
GetWildcards ==
    /\ ncalls = 0
    /\ LET path == format(rules[1].output[1], cur.wildcards)
       IN  cur' = [n |-> 1, wildcards |-> cur.wildcards, requested_output |-> path,
                   result |-> get_wildcards(1, path)]
    /\ ncalls' = 1
    /\ UNCHANGED <<workers, rules, fs, clock, jobs, dryjobs, visited0, pool, stack, call, since,
                   prev>>

NextMatch == GetWildcards

SpecMatch == InitMatch /\ [][NextMatch]_vars

InitLive == InitWith({RegFork, RegChain}, 1..NumWorkers)

\* a process of the pool takes a job
WorkerStarts ==
    \E j \in 1..Len(pool) : \E act \in rules[pool[j].rule].acts :
        \E stamp \in 0..MaxTime : JobRun(j, act, stamp)

\* the action of a job returns or raises and run_wrapper ends
WorkerEnds == \E j \in 1..Len(pool) : JobEnd(j)

\* calls in real mode, once or again in the same process
NextLive ==
    \/ \E forcethis, forceall \in BOOLEAN :
          /\ Repeats("run_first_rule", 1, FALSE, forcethis, forceall)
          /\ run_first_rule(FALSE, forcethis, forceall)
    \/ \E r \in RuleIds : \E forcethis, forceall \in BOOLEAN :
          /\ Repeats("run_rule", r, FALSE, forcethis, forceall)
          /\ run_rule(r, FALSE, forcethis, forceall)
    \/ Begin
    \/ CallChild
    \/ Await
    \/ Decide
    \/ Finish
    \/ WorkerStarts
    \/ WorkerEnds

\* the coordinator is about to enter the target's Rule.run: Begin is enabled
\* exactly then, and leaves this position
AtStart == call.state = "start"

\* the coordinator is about to enter the Rule.run of a child: CallChild is
\* enabled exactly then, and enters the child or ends the call
AtCall == call.state = "running" /\ stack # <<>> /\ Top.next <= Len(Top.tovisit)

\* the coordinator goes on whenever it can, a free process of the pool takes the
\* oldest queued job, and every action returns or raises.  For the two steps
\* that enter a Rule.run, weak fairness is stated on the position they leave:
\* the coordinator does not stay there for ever.
SpecLive ==
    /\ InitLive
    /\ [][NextLive]_vars
    /\ []<>~AtStart
    /\ []<>~AtCall
    /\ WF_vars(Await)
    /\ WF_vars(Decide)
    /\ WF_vars(Finish)
    /\ WF_vars(WorkerStarts)
    /\ WF_vars(WorkerEnds)

\* the handle on which the coordinator is blocked: that of a job.get() in a
\* Rule.run frame or in the entry point, on a job that is not done
Blocked ==
    LET handles ==
            IF call.state = "running" /\ stack # <<>> /\ ~call.dry
                  /\ Top.next > Len(Top.tovisit) /\ Pending(Top) # {}
            THEN {Top.todo[Min(Pending(Top))]}
            ELSE IF call.state = "final" /\ call.job # 0 THEN {call.job}
            ELSE {}
    IN  {j \in handles : j \notin 1..Len(pool) \/ pool[j].state # "done"}

\* C20: the coordinator only blocks on handles of jobs the pool was handed, and
\* whenever it is blocked on a job no process has taken, a process is free to
\* take a job or is running one; the jobs running never outnumber the processes
\* of the pool; and every call of run_first_rule or run_rule in real mode
\* eventually returns or raises.
C20_RealModeCallsEnd ==
    /\ [](\A j \in Blocked :
            /\ j \in 1..Len(pool)
            /\ pool[j].state = "queued" => (Free \/ Busy # {}))
    /\ [](Cardinality(Busy) <= workers)
    /\ (call.state # "idle") ~> (call.state = "idle")

\* C20 witness: with a pool of one process, the coordinator is blocked on a job
\* while that process runs it and another job of the same call waits for it
C20_Witness ==
    /\ workers = 1
    /\ \E j \in Blocked : pool[j].state = "acted" /\ pool[j].run = cur.n
    /\ \E i \in Queued : pool[i].run = cur.n

====
